---- MODULE Spec2Model ----
(***************************************************************************)
(* A model of the CDP support chatbot (src/src/chatbot.py) and its TF-IDF  *)
(* document index (src/src/indexer.py).                                    *)
(*                                                                         *)
(* Python strings are TLC strings: Len, \o and SubSeq act on them as on    *)
(* sequences of characters, a character being a string of length one.     *)
(* The questions are ASCII; str.lower() is modelled on the ASCII letters.  *)
(***************************************************************************)
EXTENDS Integers, Sequences, FiniteSets, TLC

VARIABLES
    documents,      \* DocumentIndexer.documents: the corpus, in load order
    tfidf_matrix,   \* DocumentIndexer.tfidf_matrix: None, or the fitted matrix
    service,        \* the process: "starting", "serving" or "crashed"
    pc,             \* position of the call in progress
    request,        \* answer_question: the question as received
    asked,          \* answer_question: the local `question` after truncation
    identified,     \* answer_question: the local `cdp`, from _identify_cdp
    compared,       \* _handle_comparison_question: mentioned_cdps, resolved
    feature,        \* _handle_comparison_question: comparison_features
    hits,           \* _handle_comparison_question: all_results
    call,           \* DocumentIndexer.search: the arguments of the last call
    results,        \* what search returned: to its caller, or to answer_question
    outcome         \* how the call in progress ended: returned or raised

vars == <<documents, tfidf_matrix, service, pc, request, asked, identified,
          compared, feature, hits, call, results, outcome>>

None == "None"

(***************************************************************************)
(* Python str operations.                                                  *)
(***************************************************************************)
Uppers == "ABCDEFGHIJKLMNOPQRSTUVWXYZ"
Lowers == "abcdefghijklmnopqrstuvwxyz"
Digits == "0123456789"

Char(s, i) == SubSeq(s, i, i)

CharsOf(s) == {Char(s, i) : i \in 1..Len(s)}

LowerTable == [c \in CharsOf(Uppers) |->
                 Char(Lowers, CHOOSE i \in 1..Len(Uppers) : Char(Uppers, i) = c)]

UpperTable == [c \in CharsOf(Lowers) |->
                 Char(Uppers, CHOOSE i \in 1..Len(Lowers) : Char(Lowers, i) = c)]

\* [A-Za-z0-9_]: the characters the regex class \w (and so \b) counts as a word.
WordChars == CharsOf(Uppers) \cup CharsOf(Lowers) \cup CharsOf(Digits) \cup {"_"}

\* The ASCII characters the regex class \s matches, which str.strip() removes.
SpaceChars == {" ", "\t", "\n", "\r", "\f"}

RECURSIVE Lower(_)
\* str.lower()
Lower(s) ==
    IF Len(s) = 0 THEN ""
    ELSE IF Len(s) = 1 THEN (IF s \in DOMAIN LowerTable THEN LowerTable[s] ELSE s)
    ELSE LET h == Len(s) \div 2
         IN  Lower(SubSeq(s, 1, h)) \o Lower(SubSeq(s, h + 1, Len(s)))

RECURSIVE Upper(_)
\* str.upper()
Upper(s) ==
    IF Len(s) = 0 THEN ""
    ELSE IF Len(s) = 1 THEN (IF s \in DOMAIN UpperTable THEN UpperTable[s] ELSE s)
    ELSE LET h == Len(s) \div 2
         IN  Upper(SubSeq(s, 1, h)) \o Upper(SubSeq(s, h + 1, Len(s)))

\* s[i:i+len(p)] == p, positions counted from 1
At(s, i, p) ==
    /\ i >= 1
    /\ i + Len(p) - 1 <= Len(s)
    /\ SubSeq(s, i, i + Len(p) - 1) = p

\* p in s
Contains(s, p) == \E i \in 1..(Len(s) - Len(p) + 1) : At(s, i, p)

\* any(p in s for p in ps), ps a list
ContainsAny(s, ps) == \E k \in 1..Len(ps) : Contains(s, ps[k])

\* s.find(p), counted from 1; 0 when p does not occur
Find(s, p) ==
    IF Contains(s, p)
    THEN CHOOSE i \in 1..(Len(s) - Len(p) + 1) :
            At(s, i, p) /\ \A j \in 1..(i - 1) : ~At(s, j, p)
    ELSE 0

\* s.rfind(p), counted from 1; 0 when p does not occur
RFind(s, p) ==
    IF Contains(s, p)
    THEN CHOOSE i \in 1..(Len(s) - Len(p) + 1) :
            At(s, i, p) /\ \A j \in (i + 1)..(Len(s) - Len(p) + 1) : ~At(s, j, p)
    ELSE 0

RECURSIVE Replace(_, _, _)
\* s.replace(old, new), old not empty: the occurrences from left to right
Replace(s, old, new) ==
    LET i == Find(s, old)
    IN  IF i = 0 THEN s
        ELSE SubSeq(s, 1, i - 1) \o new
                \o Replace(SubSeq(s, i + Len(old), Len(s)), old, new)

RECURSIVE ReplaceAll(_, _)
\* for old in olds: s = s.replace(old, "")
ReplaceAll(s, olds) ==
    IF Len(olds) = 0 THEN s ELSE ReplaceAll(Replace(s, Head(olds), ""), Tail(olds))

RECURSIVE Split(_, _)
\* s.split(sep), sep not empty
Split(s, sep) ==
    LET i == Find(s, sep)
    IN  IF i = 0 THEN <<s>>
        ELSE <<SubSeq(s, 1, i - 1)>> \o Split(SubSeq(s, i + Len(sep), Len(s)), sep)

RECURSIVE Strip(_)
\* str.strip()
Strip(s) ==
    IF Len(s) = 0 THEN s
    ELSE IF Char(s, 1) \in SpaceChars THEN Strip(SubSeq(s, 2, Len(s)))
    ELSE IF Char(s, Len(s)) \in SpaceChars THEN Strip(SubSeq(s, 1, Len(s) - 1))
    ELSE s

RECURSIVE Join(_, _)
\* sep.join(parts)
Join(sep, parts) ==
    IF Len(parts) = 0 THEN ""
    ELSE IF Len(parts) = 1 THEN parts[1]
    ELSE parts[1] \o sep \o Join(sep, Tail(parts))

\* str.title() of a word of letters: the first letter upper case, the rest lower
Title(w) ==
    IF Len(w) = 0 THEN w
    ELSE Upper(Char(w, 1)) \o Lower(SubSeq(w, 2, Len(w)))

Min(S) == CHOOSE x \in S : \A y \in S : x <= y
Max(S) == CHOOSE x \in S : \A y \in S : x >= y

(***************************************************************************)
(* Python re: the patterns the code searches for, by what they match.      *)
(***************************************************************************)
IsWordAt(s, i) == i >= 1 /\ i <= Len(s) /\ Char(s, i) \in WordChars

\* \b between s[i-1] and s[i]
WordBoundary(s, i) == IsWordAt(s, i - 1) # IsWordAt(s, i)

\* "." matches every character of s[i..j]: none is a line break
NoNewline(s, i, j) == \A k \in i..j : Char(s, k) # "\n"

\* re.search(r'\b' + w + r'\b', s)
SearchWord(s, w) ==
    \E i \in 1..(Len(s) - Len(w) + 1) :
        At(s, i, w) /\ WordBoundary(s, i) /\ WordBoundary(s, i + Len(w))

\* re.search(a + r'\s+' + b, s)
SearchSpaced(s, a, b) ==
    \E i \in 1..(Len(s) - Len(a) + 1) :
        /\ At(s, i, a)
        /\ \E j \in (i + Len(a) + 1)..(Len(s) - Len(b) + 1) :
              /\ \A k \in (i + Len(a))..(j - 1) : Char(s, k) \in SpaceChars
              /\ At(s, j, b)

\* re.search(a + '.+' + b, s)
SearchGap(s, a, b) ==
    \E i \in 1..(Len(s) - Len(a) + 1) :
        /\ At(s, i, a)
        /\ \E j \in (i + Len(a) + 1)..(Len(s) - Len(b) + 1) :
              At(s, j, b) /\ NoNewline(s, i + Len(a), j - 1)

\* re.search('.+' + a + '.+', s)
SearchAround(s, a) ==
    \E i \in 2..(Len(s) - Len(a)) :
        /\ At(s, i, a)
        /\ Char(s, i - 1) # "\n"
        /\ Char(s, i + Len(a)) # "\n"

(***************************************************************************)
(* CDPChatbot: the classifier (src/src/chatbot.py).                         *)
(***************************************************************************)
supported_cdps == <<"segment", "mparticle", "lytics", "zeotap">>

comparison_keywords ==
    <<"compare", "comparison", "versus", "vs", "difference", "differences",
      "better", "best", "prefer", "advantage", "disadvantage">>

cdp_keywords ==
    <<"customer data platform", "cdp", "integration", "source", "audience",
      "segment", "profile", "tracking", "analytics", "data collection",
      "identity resolution", "user profile", "event tracking", "api",
      "webhook", "destination", "data source", "user data">>

how_to_patterns == <<"how to", "how do i", "how can i", "steps to", "guide for">>

action_verbs ==
    <<"create", "set up", "configure", "integrate", "connect", "track", "implement">>

REFUSAL ==
    "I'm a CDP Support chatbot. I can only answer questions related to Customer Data Platforms (CDPs) like Segment, mParticle, Lytics, or Zeotap. Please ask me how to perform specific tasks within these platforms."

TROUBLE ==
    "I'm having trouble processing that question. Could you please try rephrasing it or asking about a different topic?"

\* _is_cdp_related as a mutant would have it: the question not lower-cased.
IsCdpRelatedCaseSensitive(question) ==
    \/ ContainsAny(question, supported_cdps)
    \/ ContainsAny(question, cdp_keywords)
    \/ \E p \in 1..Len(how_to_patterns) :
          /\ Contains(question, how_to_patterns[p])
          /\ ContainsAny(question, action_verbs)

\* _is_cdp_related as a mutant would have it: a how-to phrase is enough, no verb asked.
IsCdpRelatedAnyHowTo(question) ==
    LET question_lower == Lower(question)
    IN  \/ ContainsAny(question_lower, supported_cdps)
        \/ ContainsAny(question_lower, cdp_keywords)
        \/ ContainsAny(question_lower, how_to_patterns)

_is_cdp_related(question) ==
    LET question_lower == Lower(question)
    IN  \/ ContainsAny(question_lower, supported_cdps)
        \/ ContainsAny(question_lower, cdp_keywords)
        \/ \E p \in 1..Len(how_to_patterns) :
              /\ Contains(question_lower, how_to_patterns[p])
              /\ ContainsAny(question_lower, action_verbs)

segmentation_phrases ==
    <<"audience segment", "user segment", "customer segment",
      "segment your audience", "segment your users", "segment your customers">>

\* segment_patterns: r'\bsegment\b', r'segment\s+cdp', r'segment\s+platform'
SegmentPatternMatches(question_lower) ==
    \/ SearchWord(question_lower, "segment")
    \/ SearchSpaced(question_lower, "segment", "cdp")
    \/ SearchSpaced(question_lower, "segment", "platform")

\* the first entity of those found, None when none was
FirstCdp(found) == IF Len(found) = 0 THEN None ELSE Head(found)

\* _identify_cdp as a mutant would have it: on a generic phrase, the last of the
\* other entities named, not the first.
IdentifyCdpLastOther(question) ==
    LET question_lower == Lower(question)
        generic == ContainsAny(question_lower, segmentation_phrases)
        Other(c) == c # "segment" /\ Contains(question_lower, c)
        Named(c) == IF c = "segment"
                    THEN ~generic /\ SegmentPatternMatches(question_lower)
                    ELSE Contains(question_lower, c)
    IN  IF generic /\ FirstCdp(SelectSeq(supported_cdps, Other)) # None
        THEN SelectSeq(supported_cdps, Other)[Len(SelectSeq(supported_cdps, Other))]
        ELSE FirstCdp(SelectSeq(supported_cdps, Named))

\* _identify_cdp as a mutant would have it: "segment" not skipped on a generic phrase.
IdentifyCdpNoSkip(question) ==
    LET question_lower == Lower(question)
        Named(c) == IF c = "segment" THEN SegmentPatternMatches(question_lower)
                    ELSE Contains(question_lower, c)
    IN  FirstCdp(SelectSeq(supported_cdps, Named))

_identify_cdp(question) ==
    LET question_lower == Lower(question)
        generic == ContainsAny(question_lower, segmentation_phrases)
        Other(c) == c # "segment" /\ Contains(question_lower, c)
        Named(c) == IF c = "segment"
                    THEN ~generic /\ SegmentPatternMatches(question_lower)
                    ELSE Contains(question_lower, c)
    IN  IF generic /\ FirstCdp(SelectSeq(supported_cdps, Other)) # None
        THEN FirstCdp(SelectSeq(supported_cdps, Other))
        ELSE FirstCdp(SelectSeq(supported_cdps, Named))

non_comparison_phrases ==
    <<"audience segment", "user segment", "customer segment",
      "segment your audience", "segment your users", "segment your customers">>

explicit_comparison_keywords == <<"compare", "versus", "vs", "difference between">>

\* comparison_patterns: the five regular expressions, in list order
ComparisonPatternMatches(question_lower) ==
    \/ SearchGap(question_lower, "how does ", " compare to")
    \/ SearchGap(question_lower, "difference between ", " and")
    \/ SearchGap(question_lower, "which is better ", " or")
    \/ Contains(question_lower, "which cdp is better")
    \/ SearchAround(question_lower, " vs ")

\* mentioned_cdps of _is_comparison_question: "segment" counts by segment_patterns
ClassifierMentioned(question_lower) ==
    LET Named(c) == IF c = "segment" THEN SegmentPatternMatches(question_lower)
                    ELSE Contains(question_lower, c)
    IN  SelectSeq(supported_cdps, Named)

\* _is_comparison_question as a mutant would have it: lines 172-183 left out.
IsComparisonNoShortCircuit(question) ==
    LET question_lower == Lower(question)
    IN  \/ ContainsAny(question_lower, comparison_keywords)
        \/ ComparisonPatternMatches(question_lower)
        \/ Len(ClassifierMentioned(question_lower)) >= 2

\* _is_comparison_question as a mutant would have it: the entities mentioned not counted.
IsComparisonNoMentions(question) ==
    LET question_lower == Lower(question)
    IN  IF /\ ContainsAny(question_lower, non_comparison_phrases)
           /\ ~ContainsAny(question_lower, explicit_comparison_keywords)
        THEN FALSE
        ELSE \/ ContainsAny(question_lower, comparison_keywords)
             \/ ComparisonPatternMatches(question_lower)

_is_comparison_question(question) ==
    LET question_lower == Lower(question)
    IN  IF /\ ContainsAny(question_lower, non_comparison_phrases)
           /\ ~ContainsAny(question_lower, explicit_comparison_keywords)
        THEN FALSE
        ELSE \/ ContainsAny(question_lower, comparison_keywords)
             \/ ComparisonPatternMatches(question_lower)
             \/ Len(ClassifierMentioned(question_lower)) >= 2

(***************************************************************************)
(* CDPChatbot._truncate_question                                            *)
(***************************************************************************)
LongQuestion == 500
MarkerLead == 50
TailKept == 300

question_markers ==
    <<"?", "how", "what", "where", "when", "why", "who", "which", "can", "could">>

\* The markers, in list order, whose last occurrence lies in the latter half:
\* pos > len(question) // 2, pos counted from 0.
LateMarkers(question) ==
    {m \in 1..Len(question_markers) :
        /\ Contains(Lower(question), question_markers[m])
        /\ RFind(Lower(question), question_markers[m]) - 1 > Len(question) \div 2}

_truncate_question(question) ==
    IF LateMarkers(question) # {}
    THEN LET pos == RFind(Lower(question), question_markers[Min(LateMarkers(question))]) - 1
             start_pos == Max({0, pos - MarkerLead})
         IN  SubSeq(question, start_pos + 1, Len(question))
    ELSE SubSeq(question, Max({1, Len(question) - TailKept + 1}), Len(question))

(***************************************************************************)
(* CDPChatbot._handle_comparison_question: which entities are compared     *)
(***************************************************************************)
\* mentioned_cdps = [cdp for cdp in self.supported_cdps if cdp in question_lower]
NamedCdps(question_lower) ==
    LET Named(c) == Contains(question_lower, c)
    IN  SelectSeq(supported_cdps, Named)

InSeq(x, seq) == \E i \in 1..Len(seq) : seq[i] = x

\* the six patterns built around one cdp, any of them found in the question
InferencePatternMatches(question_lower, cdp) ==
    \/ Contains(question_lower, "difference between " \o cdp \o " and")
    \/ SearchGap(question_lower, "difference between ", " and " \o cdp)
    \/ Contains(question_lower, cdp \o " vs")
    \/ Contains(question_lower, "vs " \o cdp)
    \/ SearchGap(question_lower, "compare ", " to " \o cdp)
    \/ Contains(question_lower, "compare " \o cdp \o " to")

RECURSIVE Infer(_, _, _)
\* the loop over supported_cdps[i..] that appends the inferred entities
Infer(question_lower, mentioned, i) ==
    IF i > Len(supported_cdps) THEN mentioned
    ELSE LET c == supported_cdps[i]
         IN  IF ~InSeq(c, mentioned) /\ InferencePatternMatches(question_lower, c)
             THEN Infer(question_lower, Append(mentioned, c), i + 1)
             ELSE Infer(question_lower, mentioned, i + 1)

\* seq[:n]
Take(seq, n) == SubSeq(seq, 1, IF n < Len(seq) THEN n ELSE Len(seq))

\* the padding with the first entities not yet chosen, as a mutant would have it:
\* one entity short.
PadShort(mentioned) ==
    LET NotChosen(c) == ~InSeq(c, mentioned)
        remaining_cdps == SelectSeq(supported_cdps, NotChosen)
    IN  IF Len(mentioned) < 2
        THEN mentioned \o Take(remaining_cdps, 1 - Len(mentioned))
        ELSE mentioned

\* the padding as a mutant would have it: the last entities not yet chosen.
PadFromEnd(mentioned) ==
    LET NotChosen(c) == ~InSeq(c, mentioned)
        remaining_cdps == SelectSeq(supported_cdps, NotChosen)
    IN  IF Len(mentioned) < 2
        THEN mentioned \o [k \in 1..(2 - Len(mentioned)) |->
                              remaining_cdps[Len(remaining_cdps) + 1 - k]]
        ELSE mentioned

\* mentioned_cdps.extend(remaining_cdps[:2-len(mentioned_cdps)]) when fewer than 2
Pad(mentioned) ==
    LET NotChosen(c) == ~InSeq(c, mentioned)
        remaining_cdps == SelectSeq(supported_cdps, NotChosen)
    IN  IF Len(mentioned) < 2
        THEN mentioned \o Take(remaining_cdps, 2 - Len(mentioned))
        ELSE mentioned

\* mentioned_cdps as _handle_comparison_question resolves it (lines 236-265)
ResolveCompared(question) ==
    LET question_lower == Lower(question)
        named == NamedCdps(question_lower)
    IN  IF Len(named) < 2
        THEN Take(Pad(Infer(question_lower, named, 1)), 2)
        ELSE Take(named, 2)

(***************************************************************************)
(* CDPChatbot._extract_comparison_features                                  *)
(***************************************************************************)
features ==
    <<"audience creation", "audience segmentation", "data collection",
      "integration", "identity resolution", "user profiles", "event tracking",
      "api", "performance", "pricing", "ease of use", "implementation",
      "data sources", "destinations", "connectors", "sdks", "security",
      "compliance", "data governance", "reporting", "analytics">>

stop_words ==
    <<"what", "which", "when", "where", "there", "their", "about", "would",
      "should", "could", "between">>

\* the end of the line that holds position i: "." stops at a line break
LineEnd(s, i) ==
    IF \E k \in i..Len(s) : Char(s, k) = "\n"
    THEN Min({k \in i..Len(s) : Char(s, k) = "\n"}) - 1
    ELSE Len(s)

\* re.search(a + '(.+?)' + c, s), c one character: where the leftmost match
\* starts, 0 when there is none
LazyStart(s, a, c) ==
    LET starts == {i \in 1..(Len(s) - Len(a) + 1) :
                      /\ At(s, i, a)
                      /\ \E j \in (i + Len(a) + 1)..Len(s) :
                            Char(s, j) = c /\ NoNewline(s, i + Len(a), j - 1)}
    IN  IF starts = {} THEN 0 ELSE Min(starts)

\* group(1) of that match: the shortest run, of one character at least, up to c
LazyGroup(s, a, c) ==
    LET k == LazyStart(s, a, c) + Len(a)
        j == Min({e \in (k + 1)..Len(s) : Char(s, e) = c})
    IN  SubSeq(s, k, j - 1)

\* re.search(a + '.+' + b + '(.+)', s): the places <<i, j>> where a and b can stand
GreedyPlaces(s, a, b) ==
    UNION {{<<i, j>> : j \in {e \in (i + Len(a) + 1)..(Len(s) - Len(b)) :
                                /\ At(s, e, b)
                                /\ NoNewline(s, i + Len(a), e + Len(b))}} :
           i \in {b0 \in 1..(Len(s) - Len(a) + 1) : At(s, b0, a)}}

\* group(1) of the leftmost match: '.+' is greedy, so b stands as late as it can
\* and the group runs to the end of the line
GreedyGroup(s, a, b) ==
    LET places == GreedyPlaces(s, a, b)
        i == Min({p[1] : p \in places})
        j == Max({p[2] : p \in {r \in places : r[1] = i}})
    IN  SubSeq(s, j + Len(b), LineEnd(s, j + Len(b)))

\* the runs of word characters of s, each from one \b to the next
WordRuns(s) ==
    {SubSeq(s, i, Min({j \in i..Len(s) : ~IsWordAt(s, j + 1)})) :
        i \in {b0 \in 1..Len(s) : IsWordAt(s, b0) /\ ~IsWordAt(s, b0 - 1)}}

\* re.findall(r'\b[a-z]{4,}\b', s): the runs that are four or more lower-case letters
FeatureWords(s) ==
    {w \in WordRuns(s) :
        /\ Len(w) >= 4
        /\ \A k \in 1..Len(w) : Char(w, k) \in CharsOf(Lowers)}

_extract_comparison_features(question) ==
    LET question_lower == Lower(question)
        InQuestion(f) == Contains(question_lower, f)
        found_features == SelectSeq(features, InQuestion)
        cleaned_question ==
            ReplaceAll(ReplaceAll(question_lower, supported_cdps), comparison_keywords)
        filtered_words == {w \in FeatureWords(cleaned_question) : ~InSeq(w, stop_words)}
    IN  IF Len(found_features) > 0 THEN Join(", ", found_features)
        ELSE IF Contains(question_lower, "difference between")
             THEN "general capabilities"
        ELSE IF LazyStart(question_lower, "which is better for ", "?") # 0
             THEN Strip(LazyGroup(question_lower, "which is better for ", "?"))
        ELSE IF GreedyPlaces(question_lower, "compare ", " for ") # {}
             THEN Strip(GreedyGroup(question_lower, "compare ", " for "))
        ELSE IF GreedyPlaces(question_lower, "how do ", " compare in ") # {}
             THEN Strip(GreedyGroup(question_lower, "how do ", " compare in "))
        ELSE IF filtered_words # {}
             THEN "data integration and capabilities"
        ELSE "features and capabilities"

(***************************************************************************)
(* DocumentIndexer._preprocess_query                                        *)
(***************************************************************************)
query_action_verbs ==
    <<"create", "set up", "configure", "integrate", "connect", "build", "use">>

\* _preprocess_query as a mutant would have it: the "how to" test left out.
PreprocessQueryAlways(query) ==
    LET processed == Lower(query)
    IN  IF ContainsAny(processed, query_action_verbs)
        THEN "how to " \o processed
        ELSE processed

_preprocess_query(query) ==
    LET processed == Lower(query)
    IN  IF /\ ~Contains(processed, "how to")
           /\ ~Contains(processed, "how do i")
           /\ ContainsAny(processed, query_action_verbs)
        THEN "how to " \o processed
        ELSE processed

(***************************************************************************)
(* DocumentIndexer: the corpus and the index (src/src/indexer.py).          *)
(*                                                                         *)
(* scikit-learn is not part of the repository.  TfidfVectorizer and        *)
(* cosine_similarity are modelled by their contract: fit_transform raises  *)
(* ValueError on a corpus that leaves no vocabulary, and the similarities  *)
(* of a query are one number per document row, any of them.  A score is    *)
(* counted in tenths, so that the 0.1 of the relevance test is 1.          *)
(***************************************************************************)
MaxDocs == 3
MaxScore == 3
MaxK == 4
MaxWords == 3
MaxAskWords == 1

RELEVANCE == 1
DEFAULT_TOP_K == 3
MIN_DF == 2
MAX_DF_PERCENT == 85

\* The *_docs.json files a docs_dir may hold, as document_processor.py writes them.
Library ==
    << [cdp |-> "segment", title |-> "Sources",
        content |-> "Step 1. Create a new source in Segment. Then connect it.",
        url |-> "https://segment.com/docs/sources"],
       [cdp |-> "mparticle", title |-> "User profiles",
        content |-> "To create a user profile in mParticle, set up an input first.",
        url |-> "https://docs.mparticle.com/profiles"],
       [cdp |-> "lytics", title |-> "",
        content |-> "How to build an audience segment in Lytics. First, open Audiences.",
        url |-> "https://docs.lytics.com/audiences"],
       [cdp |-> "zeotap", title |-> "Integrations",
        content |-> "Integrate your data with Zeotap. Step 1 create a new source.",
        url |-> "https://docs.zeotap.com/integrate"],
       [cdp |-> "segment", title |-> "Audiences",
        content |-> "Compare audience creation and integration. Segment your users.",
        url |-> "https://segment.com/docs/audiences"] >>

\* what os.listdir and json.load may find: the first n documents of the library
Corpora ==
    {SubSeq(Library, 1, n) :
        n \in 0..(IF MaxDocs < Len(Library) THEN MaxDocs ELSE Len(Library))}

Scores == 0..MaxScore

\* The patterns of _preprocess_for_how_to, token by token: a literal, one
\* character of a class, or the longest run (one at least) of a class.  No
\* run is followed by a character of its own class, so nothing backtracks.
Lit(text) == <<"lit", text>>
One(class) == <<"one", class>>
Many(class) == <<"many", class>>

space == SpaceChars
digit == CharsOf(Digits)
lower_letter == CharsOf(Lowers)
upper_letter == CharsOf(Uppers)

step_patterns ==
    << <<Many(digit), Lit("."), Many(space), One(upper_letter)>>,
       <<Lit("step"), Many(space), Many(digit)>>,
       <<Lit("first,"), Many(space), One(lower_letter)>>,
       <<Lit("second,"), Many(space), One(lower_letter)>>,
       <<Lit("finally,"), Many(space), One(lower_letter)>>,
       <<Lit("to"), Many(space), Many(lower_letter), Lit(","), Many(space),
         Lit("you"), Many(space)>> >>

index_how_to_patterns ==
    << <<Lit("how"), Many(space), Lit("to"), Many(space), Many(lower_letter)>>,
       <<Lit("guide"), Many(space), Lit("to"), Many(space), Many(lower_letter)>>,
       <<Lit("steps"), Many(space), Lit("to"), Many(space), Many(lower_letter)>>,
       <<Lit("instructions"), Many(space), Lit("for"), Many(space)>>,
       <<Lit("setup"), Many(space)>>,
       <<Lit("configure"), Many(space)>>,
       <<Lit("create"), Many(space)>>,
       <<Lit("integrate"), Many(space)>>,
       <<Lit("connect"), Many(space)>> >>

\* the first position from i on whose character is not of the class
RunEnd(s, i, class) ==
    Min({j \in i..(Len(s) + 1) : j = Len(s) + 1 \/ Char(s, j) \notin class})

RECURSIVE MatchEnd(_, _, _)
\* re.match of the pattern at s[i:]: the position after the match, 0 for no match
MatchEnd(s, i, pattern) ==
    IF Len(pattern) = 0 THEN i
    ELSE LET token == Head(pattern)
             next == IF token[1] = "lit"
                     THEN (IF At(s, i, token[2]) THEN i + Len(token[2]) ELSE 0)
                     ELSE IF token[1] = "one"
                     THEN (IF i <= Len(s) /\ Char(s, i) \in token[2] THEN i + 1 ELSE 0)
                     ELSE (IF RunEnd(s, i, token[2]) > i THEN RunEnd(s, i, token[2]) ELSE 0)
         IN  IF next = 0 THEN 0 ELSE MatchEnd(s, next, Tail(pattern))

RECURSIVE FindAll(_, _, _)
\* re.findall(pattern, s[i:]): the matches from left to right, none overlapping
FindAll(s, i, pattern) ==
    LET starts == {j \in i..Len(s) : MatchEnd(s, j, pattern) # 0}
    IN  IF starts = {} THEN <<>>
        ELSE LET start == Min(starts)
                 end == MatchEnd(s, start, pattern)
             IN  <<SubSeq(s, start, end - 1)>> \o FindAll(s, end, pattern)

RECURSIVE Reweigh(_, _)
\* lines 72-83: for each pattern in turn, what it matches in the text so far
\* (what the patterns before it appended included) is appended to the text
Reweigh(processed, patterns) ==
    IF Len(patterns) = 0 THEN processed
    ELSE LET matches == FindAll(processed, 1, Head(patterns))
         IN  Reweigh(IF Len(matches) > 0
                     THEN processed \o " " \o Join(" ", matches)
                     ELSE processed,
                     Tail(patterns))

\* _preprocess_for_how_to(content)
_preprocess_for_how_to(content) ==
    Reweigh(Reweigh(Lower(content), step_patterns), index_how_to_patterns)

\* doc['processed_content'] = self._preprocess_for_how_to(doc['content'])
Processed(docs) ==
    [i \in 1..Len(docs) |->
        [cdp |-> docs[i].cdp, title |-> docs[i].title, content |-> docs[i].content,
         url |-> docs[i].url,
         processed_content |-> _preprocess_for_how_to(docs[i].content)]]

\* fit_transform must raise: no text, or max_df * n_docs < min_df
FitMustRaise(texts) ==
    \/ Len(texts) = 0
    \/ MAX_DF_PERCENT * Len(texts) < 100 * MIN_DF

\* seq[a:], a counted as Python counts it: from the end when negative
SliceFrom(seq, a) ==
    LET start == IF a < 0 THEN Max({0, Len(seq) + a}) ELSE a
    IN  SubSeq(seq, start + 1, Len(seq))

\* seq[::-1]
Reversed(seq) == [i \in 1..Len(seq) |-> seq[Len(seq) + 1 - i]]

RowOrders(n) ==
    {f \in [1..n -> 1..n] : \A i, j \in 1..n : i # j => f[i] # f[j]}

\* np.argsort(similarities): the rows in ascending order of score.  The default
\* sort is not stable: rows of equal score come in any order.
ArgSorts(similarities) ==
    {f \in RowOrders(Len(similarities)) :
        \A i \in 1..(Len(similarities) - 1) :
            similarities[f[i]] <= similarities[f[i + 1]]}

\* lines 106-107 as a mutant would have them: the first top_k of the ascending order
TopIndicesFromFront(order, top_k) ==
    Reversed(Take(order, IF top_k < Len(order) THEN top_k ELSE Len(order)))

\* top_k = min(top_k, len(similarities)); argsort(...)[-top_k:][::-1]
TopIndices(order, top_k) ==
    LET k == IF top_k < Len(order) THEN top_k ELSE Len(order)
    IN  Reversed(SliceFrom(order, 0 - k))

\* score > 0.1
Relevant(score) == score > RELEVANCE

\* lines 110-119: the results kept, in the order of top_indices.  `row` is the
\* index of the document in self.documents, kept beside the document itself.
SearchResults(docs, similarities, order, top_k) ==
    LET top_indices == TopIndices(order, top_k)
        Kept(idx) == Relevant(similarities[idx])
        kept == SelectSeq(top_indices, Kept)
    IN  [i \in 1..Len(kept) |->
            [document |-> docs[kept[i]], score |-> similarities[kept[i]],
             row |-> kept[i]]]

(***************************************************************************)
(* CDPChatbot: the Response Composer.                                       *)
(***************************************************************************)
BODY_LIMIT == 800
BLOCK_LIMIT == 300
SENTENCES_KEPT == 3
RESOURCES_FROM == 2
RESOURCES_TO == 3

step_indicators == <<"Step 1", "1.", "First", "To begin", "Start by">>

NO_MATCH ==
    "I couldn't find specific information about that. Could you please rephrase your question? Try asking how to perform a specific task in "
        \o Join(", ", supported_cdps) \o "."

\* seq[a-1:b] of Python, a and b counted from 1: what there is of seq[a..b]
Slice(seq, a, b) == SubSeq(seq, a, IF b < Len(seq) THEN b ELSE Len(seq))

\* ShownContent without the search for a step indicator of lines 425-435
ShownContentFromStart(content) ==
    IF Len(content) <= BODY_LIMIT THEN content
    ELSE Slice(content, 1, BODY_LIMIT) \o "..."

\* lines 421-438: the part of the content shown
ShownContent(content) ==
    LET present == {k \in 1..Len(step_indicators) : Contains(content, step_indicators[k])}
    IN  IF Len(content) <= BODY_LIMIT THEN content
        ELSE IF present # {}
        THEN LET pos == Find(content, step_indicators[Min(present)])
             IN  Slice(content, pos, pos + BODY_LIMIT - 1) \o "..."
        ELSE Slice(content, 1, BODY_LIMIT) \o "..."

\* the decimal digits of i, i in 0..9 (enumerate(results[1:3], 1) gives 1 and 2)
Str(i) == Char(Digits, i + 1)

RECURSIVE MoreResources(_, _)
\* lines 449-451: one line for each of results[1:3]
MoreResources(more, i) ==
    IF i > Len(more) THEN ""
    ELSE LET doc == more[i].document
         IN  Str(i) \o ". "
                \o (IF doc.title # "" THEN doc.title ELSE "Additional resource")
                \o ": " \o doc.url \o "\n" \o MoreResources(more, i + 1)

\* _format_response(results, cdp), results not empty
_format_response(res, cdp) ==
    LET best_match == res[1].document
        named == IF cdp = None THEN best_match.cdp ELSE cdp
    IN  "Here's how to do that in " \o Title(named) \o ":\n\n"
            \o ShownContent(best_match.content) \o "\n\n"
            \o "Source: " \o best_match.url
            \o (IF Len(res) > 1
                THEN "\n\nYou might also find these resources helpful:\n"
                        \o MoreResources(Slice(res, RESOURCES_FROM, RESOURCES_TO), 1)
                ELSE "")

\* the keys of the comparisons table, in the order the dict holds them
comparison_keys ==
    << <<"segment", "mparticle", "audience">>,
       <<"segment", "mparticle", "integration">>,
       <<"segment", "lytics", "audience">>,
       <<"mparticle", "lytics", "audience">>,
       <<"zeotap", "segment", "identity">>,
       <<"zeotap", "mparticle", "general">>,
       <<"zeotap", "mparticle", "integration">>,
       <<"zeotap", "mparticle", "identity">>,
       <<"zeotap", "mparticle", "features">>,
       <<"zeotap", "mparticle", "capabilities">> >>

\* the two halves of each sentence of the table: "<cdp1> <first>, while <cdp2> <second>"
comparison_texts ==
    << <<" focuses on data collection and routing", " has more advanced audience segmentation capabilities.">>,
       <<" has a wider range of integrations", " offers deeper mobile-specific integrations.">>,
       <<" requires more technical setup", " offers more marketer-friendly audience creation tools.">>,
       <<" excels in mobile data collection", " focuses on content affinity and predictive modeling.">>,
       <<" has stronger identity resolution capabilities", " offers more flexible data routing options.">>,
       <<" specializes in cross-channel identity resolution and data unification", " excels in mobile data collection and offers a more developer-friendly interface.">>,
       <<" uses a connection-based approach with detailed data mapping", " offers a more streamlined integration process through their dashboard.">>,
       <<" provides more robust identity resolution rules for cross-channel data", " focuses on creating comprehensive user profiles with automatic event association.">>,
       <<" is better suited for enterprises with complex data environments", " is stronger for companies with significant mobile presence.">>,
       <<" offers more detailed configuration options for data connections", " provides a simpler interface for basic data collection needs.">> >>

\* the f-string of entry k, built from the arguments cdp1 and cdp2
ComparisonText(k, cdp1, cdp2) ==
    Title(cdp1) \o comparison_texts[k][1] \o ", while "
        \o Title(cdp2) \o comparison_texts[k][2]

\* the entries the loop of lines 396-397 accepts
MatchingEntries(cdp1, cdp2, feat) ==
    {k \in 1..Len(comparison_keys) :
        LET c1 == comparison_keys[k][1]
            c2 == comparison_keys[k][2]
            f == comparison_keys[k][3]
        IN  /\ (cdp1 = c1 /\ cdp2 = c2) \/ (cdp1 = c2 /\ cdp2 = c1)
            /\ \/ Contains(feat, f)
               \/ f = "general" \/ f = "features" \/ f = "capabilities"}

\* _generate_difference_point without the exchange of lines 398-399
DifferencePointNoSwap(cdp1, cdp2, feat) ==
    LET matching == MatchingEntries(cdp1, cdp2, feat)
    IN  IF matching # {}
        THEN ComparisonText(Min(matching), cdp1, cdp2)
        ELSE Title(cdp1) \o " and " \o Title(cdp2)
                \o " have different approaches to " \o feat
                \o ", with each offering unique advantages depending on your specific use case."

_generate_difference_point(cdp1, cdp2, feat) ==
    LET matching == MatchingEntries(cdp1, cdp2, feat)
    IN  IF matching # {}
        THEN LET k == Min(matching)
                 c1 == comparison_keys[k][1]
                 c2 == comparison_keys[k][2]
                 comparison == ComparisonText(k, cdp1, cdp2)
             IN  IF cdp1 # c1
                 THEN Replace(Replace(Replace(comparison, Title(c1), "TEMP"),
                                      Title(c2), Title(c1)),
                              "TEMP", Title(c2))
                 ELSE comparison
        ELSE Title(cdp1) \o " and " \o Title(cdp2)
                \o " have different approaches to " \o feat
                \o ", with each offering unique advantages depending on your specific use case."

RECURSIVE Words(_)
\* s.split(): the runs of characters that are not white space, in order
Words(s) ==
    IF Len(s) = 0 THEN <<>>
    ELSE IF Char(s, 1) \in SpaceChars THEN Words(SubSeq(s, 2, Len(s)))
    ELSE LET ends == {j \in 1..Len(s) : j = Len(s) \/ Char(s, j + 1) \in SpaceChars}
             e == Min(ends)
         IN  <<SubSeq(s, 1, e)>> \o Words(SubSeq(s, e + 1, Len(s)))

\* lines 290-302: the part of a document shown in its block
BlockContent(content, feat) ==
    LET sentences == Split(content, ".")
        keys == Words(feat)
        IsRelevant(sentence) == ContainsAny(Lower(sentence), keys)
        relevant_sentences == SelectSeq(sentences, IsRelevant)
    IN  IF Len(content) <= BLOCK_LIMIT THEN content
        ELSE IF Len(relevant_sentences) > 0
        THEN Join(". ", Take(relevant_sentences, SENTENCES_KEPT)) \o "."
        ELSE Slice(content, 1, BLOCK_LIMIT) \o "..."

\* the blocks as a mutant would have them: the block of the first result only.
BlocksFirstOnly(found, feat, i) ==
    IF i > 1 \/ Len(found) = 0 THEN ""
    ELSE "**" \o Title(found[1][1]) \o "**:\n"
            \o BlockContent(found[1][2].document.content, feat) \o "\n\n"

RECURSIVE Blocks(_, _, _)
\* lines 285-304: one block for each of all_results
Blocks(found, feat, i) ==
    IF i > Len(found) THEN ""
    ELSE "**" \o Title(found[i][1]) \o "**:\n"
            \o BlockContent(found[i][2].document.content, feat) \o "\n\n"
            \o Blocks(found, feat, i + 1)

\* the answer of the comparison path as a mutant would have it: the message of
\* line 281 unless both entities had a result.
ComparisonResponseNeedsBoth(mentioned, feat, found) ==
    IF Len(found) < 2
    THEN "I don't have enough information to compare " \o Join(" and ", mentioned)
            \o " regarding " \o feat
            \o ". Could you please ask a more specific question?"
    ELSE "Here's a comparison of " \o feat \o " between "
            \o Join(" and ", mentioned) \o ":\n\n"
            \o Blocks(found, feat, 1)
            \o "**Key Differences**:\n"
            \o "- " \o _generate_difference_point(found[1][1], found[2][1], feat) \o "\n"
            \o "\nNote: This comparison is based on the available documentation. For more detailed comparisons, you may want to consult each platform's full documentation."

\* lines 280-314: the answer of the comparison path
ComparisonResponse(mentioned, feat, found) ==
    IF Len(found) = 0
    THEN "I don't have enough information to compare " \o Join(" and ", mentioned)
            \o " regarding " \o feat
            \o ". Could you please ask a more specific question?"
    ELSE "Here's a comparison of " \o feat \o " between "
            \o Join(" and ", mentioned) \o ":\n\n"
            \o Blocks(found, feat, 1)
            \o "**Key Differences**:\n"
            \o (IF Len(found) >= 2
                THEN "- " \o _generate_difference_point(found[1][1], found[2][1], feat) \o "\n"
                ELSE "")
            \o "\nNote: This comparison is based on the available documentation. For more detailed comparisons, you may want to consult each platform's full documentation."

(***************************************************************************)
(* The questions asked.                                                    *)
(***************************************************************************)
Vocabulary ==
    {"Segment", "mParticle", "lytics", "zeotap", "audience segment", "segments",
     "vs", "better", "how do i", "create", "report", "How to"}

RECURSIVE Sentences(_)
\* the questions of n words at most, the words one space apart
Sentences(n) ==
    IF n = 0 THEN {""}
    ELSE LET shorter == Sentences(n - 1)
         IN  shorter \cup {IF p = "" THEN w ELSE p \o " " \o w :
                             p \in shorter, w \in Vocabulary}

RECURSIVE Repeat(_, _)
\* s * n
Repeat(s, n) ==
    IF n = 0 THEN ""
    ELSE IF n = 1 THEN s
    ELSE Repeat(s, n \div 2) \o Repeat(s, n - n \div 2)

\* questions of more than 500 characters: one with its entity only at the
\* start, one with it at the end, one with no question marker at all, one
\* with its last marker just after the middle
LongQuestions ==
    {"How do I create a source in Segment " \o Repeat("and then ", 60) \o "?",
     Repeat("Please tell me ", 40) \o "how do I create a source in Segment?",
     "Segment " \o Repeat("and then ", 60),
     Repeat("Please tell me ", 40) \o "How do I create a source in Segment?"
        \o Repeat(" thanks", 80)}

Questions == Sentences(MaxWords)

\* the questions of test_all.py and of the specification, and some like them
TestQuestions ==
    {"How do I set up a new source in Segment?",
     "How can I create a user profile in mParticle?",
     "How do I build an audience segment in Lytics?",
     "How can I integrate my data with Zeotap?",
     "Which CDP is better for identity resolution?",
     "How does Segment's audience creation compare to Lytics?",
     "What are the differences between mParticle and Zeotap?",
     "Segment vs mParticle for data collection",
     "How do I create an audience segment?",
     "How do I create a table?",
     "How do I sync my segments to mParticle?",
     "Compare Zeotap and mParticle and Segment",
     "How do I create an audience segment in Segment CDP?",
     "Segment vs Lytics: which is better for  ?",
     "What is the weather today?"}

AskQuestions == Sentences(MaxAskWords) \cup TestQuestions \cup LongQuestions

\* the queries of the direct calls of search
Queries == {"how do i create a source", "segment vs lytics"}

(***************************************************************************)
(* The state machine.                                                      *)
(***************************************************************************)
NoCall == [query |-> None]
NoMatrix == [fitted |-> FALSE]
Matrix(rows) == [fitted |-> TRUE, rows |-> rows]
NoOutcome == [kind |-> "none"]
Returned(value) == [kind |-> "return", value |-> value]
Raised(error) == [kind |-> "raise", value |-> error]

\* DocumentIndexer.__init__: no document, no matrix; no call in progress
Init ==
    /\ documents = <<>>
    /\ tfidf_matrix = NoMatrix
    /\ service = "starting"
    /\ pc = "idle"
    /\ request = ""
    /\ asked = ""
    /\ identified = None
    /\ compared = <<>>
    /\ feature = ""
    /\ hits = <<>>
    /\ call = NoCall
    /\ results = <<>>
    /\ outcome = NoOutcome

\* CDPChatbot.__init__ as a mutant would have it: the failure of the load swallowed.
StartedAfterFailedLoad == "serving"

\* CDPChatbot.__init__ and the module-level chatbot = CDPChatbot() of api.py:
\* nothing catches what load_documents raises, so the import fails.
AfterFailedLoad == "crashed"

\* load_documents, called by CDPChatbot.__init__.  The directory may be missing
\* (os.listdir raises), and fit_transform may raise on the texts it is given.
LoadDocuments ==
    /\ service = "starting"
    /\ pc = "idle"
    /\ \/ /\ documents' = <<>>
          /\ outcome' = Raised("FileNotFoundError")
          /\ service' = AfterFailedLoad
          /\ UNCHANGED tfidf_matrix
       \/ \E disk \in Corpora, fit_ok \in BOOLEAN :
             LET texts == [i \in 1..Len(disk) |-> Processed(disk)[i].processed_content]
             IN  /\ documents' = Processed(disk)
                 /\ IF FitMustRaise(texts) \/ ~fit_ok
                    THEN /\ outcome' = Raised("ValueError")
                         /\ service' = AfterFailedLoad
                         /\ UNCHANGED tfidf_matrix
                    ELSE /\ tfidf_matrix' = Matrix(Len(texts))
                         /\ service' = "serving"
                         /\ UNCHANGED outcome
    /\ UNCHANGED <<pc, request, asked, identified, compared, feature, hits, call, results>>

\* what search(query, top_k) can return on the index as it is: the results of
\* lines 104-119 for every similarity vector and every order argsort may give
Searches(top_k) ==
    IF ~tfidf_matrix.fitted THEN {}
    ELSE UNION {{SearchResults(documents, sims, order, top_k) : order \in ArgSorts(sims)} :
           sims \in [1..tfidf_matrix.rows -> Scores]}

\* DocumentIndexer.search(query, top_k), called on its own
Search ==
    /\ service \in {"starting", "serving"}
    /\ pc = "idle"
    /\ \E query \in Queries, top_k \in 0..MaxK :
          IF ~tfidf_matrix.fitted
          THEN /\ call' = [query |-> query, top_k |-> top_k]
               /\ outcome' = Raised("AttributeError")
               /\ results' = <<>>
          ELSE \E sims \in [1..tfidf_matrix.rows -> Scores] :
                 \E order \in ArgSorts(sims) :
                    /\ call' = [query |-> query, top_k |-> top_k,
                                processed_query |-> _preprocess_query(query),
                                similarities |-> sims]
                    /\ results' = SearchResults(documents, sims, order, top_k)
                    /\ outcome' = Returned("results")
    /\ pc' = "done"
    /\ UNCHANGED <<documents, tfidf_matrix, service, request, asked, identified,
                   compared, feature, hits>>

\* answer_question, lines 22-35: truncation, the three decisions of the classifier
Ask ==
    /\ service = "serving"
    /\ pc = "idle"
    /\ \E question \in AskQuestions :
          LET truncated == IF Len(question) > LongQuestion
                           THEN _truncate_question(question)
                           ELSE question
          IN  /\ request' = question
              /\ asked' = truncated
              /\ IF ~_is_cdp_related(truncated)
                 THEN /\ outcome' = Returned(REFUSAL)
                      /\ pc' = "done"
                      /\ UNCHANGED <<identified, compared, feature>>
                 ELSE IF _is_comparison_question(truncated)
                 THEN /\ compared' = ResolveCompared(truncated)
                      /\ feature' = _extract_comparison_features(truncated)
                      /\ pc' = "compare"
                      /\ UNCHANGED <<identified, outcome>>
                 ELSE /\ identified' = _identify_cdp(truncated)
                      /\ pc' = "search"
                      /\ UNCHANGED <<compared, feature, outcome>>
    /\ UNCHANGED <<documents, tfidf_matrix, service, hits, call, results>>

\* lines 48-51: whatever the search or the formatting raises becomes the apology
SearchFailed(error) == Returned(TROUBLE)

\* answer_question, lines 38-51: the search of the single-entity path and its answer.
\* self.indexer.search may raise, or it returns what the similarities give.
SingleSearch ==
    /\ pc = "search"
    /\ call' = [query |-> asked, top_k |-> DEFAULT_TOP_K,
                processed_query |-> _preprocess_query(asked)]
    /\ \/ /\ outcome' = SearchFailed("Exception")
          /\ results' = <<>>
       \/ \E found \in Searches(DEFAULT_TOP_K) :
              /\ results' = found
              /\ outcome' = IF Len(found) = 0 THEN Returned(NO_MATCH)
                            ELSE Returned(_format_response(found, identified))
    /\ pc' = "done"
    /\ UNCHANGED <<documents, tfidf_matrix, service, request, asked, identified,
                   compared, feature, hits>>

\* lines 279-314, after the last entity: the answer is composed and returned
AfterSearch(turn, all_results) ==
    IF turn = Len(compared)
    THEN /\ outcome' = Returned(ComparisonResponse(compared, feature, all_results))
         /\ pc' = "done"
    ELSE UNCHANGED <<outcome, pc>>

\* _handle_comparison_question, lines 270-277: the search for the next entity of
\* mentioned_cdps (call.turn counts them), its best match kept in all_results.
\* Nothing around self.indexer.search catches what it raises.
CompareSearch ==
    /\ pc = "compare"
    /\ LET turn == IF call = NoCall THEN 1 ELSE call.turn + 1
           cdp == compared[turn]
           cdp_query == feature \o " in " \o cdp
       IN  /\ call' = [query |-> cdp_query, top_k |-> DEFAULT_TOP_K,
                       processed_query |-> _preprocess_query(cdp_query),
                       turn |-> turn]
           /\ \/ /\ outcome' = Raised("Exception")
                 /\ pc' = "done"
                 /\ UNCHANGED hits
              \/ \E found \in Searches(DEFAULT_TOP_K) :
                     LET all_results == IF Len(found) > 0
                                        THEN Append(hits, <<cdp, found[1]>>)
                                        ELSE hits
                     IN  /\ hits' = all_results
                         /\ AfterSearch(turn, all_results)
    /\ UNCHANGED <<documents, tfidf_matrix, service, request, asked, identified,
                   compared, feature, results>>

\* the call is over: its locals are gone, the next question may come
Finish ==
    /\ pc = "done"
    /\ pc' = "idle"
    /\ request' = ""
    /\ asked' = ""
    /\ identified' = None
    /\ compared' = <<>>
    /\ feature' = ""
    /\ hits' = <<>>
    /\ call' = NoCall
    /\ results' = <<>>
    /\ outcome' = NoOutcome
    /\ UNCHANGED <<documents, tfidf_matrix, service>>

Next == LoadDocuments \/ Ask \/ SingleSearch \/ CompareSearch \/ Finish

Spec == Init /\ [][Next]_vars

NextSearch == LoadDocuments \/ Search \/ Finish

SpecSearch == Init /\ [][NextSearch]_vars

\* a sentence of a documentation page, without any step indicator
Filler == "Choose the workspace and map each field to a trait. "

\* contents a best match may have: short, of exactly BODY_LIMIT characters,
\* of one more, and longer ones with an indicator after the start, with two
\* indicators in the order opposite to step_indicators, and with an indicator
\* near the end
FormatContents ==
    {Library[1].content,
     Repeat(Filler, 15) \o "Save the new source.",
     Repeat(Filler, 15) \o "Save your new source.",
     Repeat(Filler, 2) \o "First, open the sources page. " \o Repeat(Filler, 16),
     "1. Open the catalog. " \o Filler \o "Step 1 is to name the source. "
        \o Repeat(Filler, 16),
     Repeat(Filler, 16) \o "Start by saving."}

\* _format_response called on one to three results, the first a document of
\* the content drawn, with and without an identified entity
FormatResponse ==
    /\ pc = "idle"
    /\ \E content \in FormatContents, cdp \in {None, "segment", "lytics"}, more \in 0..2 :
          LET best == [document |-> [cdp |-> "segment", title |-> "Sources",
                                      content |-> content,
                                      url |-> "https://segment.com/docs/sources"],
                       score |-> MaxScore, row |-> 1]
              rest == [i \in 1..more |->
                          [document |-> Processed(Library)[i + 1],
                           score |-> RELEVANCE, row |-> i + 1]]
          IN  call' = [results |-> <<best>> \o rest, cdp |-> cdp,
                       response |-> _format_response(<<best>> \o rest, cdp)]
    /\ pc' = "formatted"
    /\ UNCHANGED <<documents, tfidf_matrix, service, request, asked, identified,
                   compared, feature, hits, results, outcome>>

\* the methods of the classifier called one by one on a question, as the
\* functions of test_all.py call them
Classify ==
    /\ pc = "idle"
    /\ \E question \in Questions \cup TestQuestions :
          /\ request' = question
          /\ asked' = question
          /\ identified' = _identify_cdp(question)
          /\ compared' = ResolveCompared(question)
          /\ feature' = _extract_comparison_features(question)
          /\ outcome' = [kind |-> "classified",
                         related |-> _is_cdp_related(question),
                         comparison |-> _is_comparison_question(question)]
    /\ pc' = "classified"
    /\ UNCHANGED <<documents, tfidf_matrix, service, hits, call, results>>

\* _preprocess_query called on a query, and on what it returned
PreprocessQuery ==
    /\ pc = "idle"
    /\ \E query \in Questions :
          call' = [query |-> query,
                   processed_query |-> _preprocess_query(query),
                   again |-> _preprocess_query(_preprocess_query(query))]
    /\ pc' = "preprocessed"
    /\ UNCHANGED <<documents, tfidf_matrix, service, request, asked, identified,
                   compared, feature, hits, results, outcome>>

\* feature strings as _extract_comparison_features gives them
DifferenceFeatures ==
    {"integration", "audience creation", "identity resolution", "data collection",
     "pricing", "audience creation, integration", "general capabilities",
     "features and capabilities", "data integration and capabilities"}

\* _generate_difference_point called on two distinct entities and a feature
DifferencePoint ==
    /\ pc = "idle"
    /\ \E i, j \in 1..Len(supported_cdps), feat \in DifferenceFeatures :
          /\ i # j
          /\ call' = [cdp1 |-> supported_cdps[i], cdp2 |-> supported_cdps[j],
                      feature |-> feat,
                      point |-> _generate_difference_point(supported_cdps[i],
                                                           supported_cdps[j], feat)]
    /\ pc' = "differed"
    /\ UNCHANGED <<documents, tfidf_matrix, service, request, asked, identified,
                   compared, feature, hits, results, outcome>>

NextUnits == Classify \/ PreprocessQuery \/ DifferencePoint \/ FormatResponse

SpecUnits == Init /\ [][NextUnits]_vars

(***************************************************************************)
(* Questions answered in parallel.  api.py and web_app.py hold one         *)
(* CDPChatbot for every request; each call of answer_question has its own  *)
(* locals, and what it shares with the other calls is the indexer.  Here   *)
(* pc, request, asked, identified, compared, feature, hits, results and    *)
(* outcome hold one value for each thread, and call records what search    *)
(* gave for each query so far: on one index, search is a function of its   *)
(* query.                                                                  *)
(***************************************************************************)
MaxThreads == 2

Threads == 1..MaxThreads

\* the questions the threads ask: one refused, one of the single-entity path,
\* one of the comparison path
ParallelQuestions ==
    {"What is the weather today?",
     "How do I build an audience segment in Lytics?",
     "Segment vs mParticle for data collection"}

\* the similarities a query may have in these runs: no document relevant, the
\* last one relevant, or the first two relevant
ParallelSimilarities(rows) ==
    {[i \in 1..rows |-> IF i = r THEN MaxScore ELSE 0] : r \in {0, rows}}
        \cup {[i \in 1..rows |-> IF i = 1 THEN MaxScore
                                 ELSE IF i = 2 THEN MaxScore - 1 ELSE 0]}

\* what search(query) may do on the index as it is: raise, or return results
ParallelSearches ==
    {Raised("Exception")}
        \cup UNION {{Returned(SearchResults(documents, sims, order, DEFAULT_TOP_K)) :
                        order \in ArgSorts(sims)} :
                    sims \in ParallelSimilarities(tfidf_matrix.rows)}

\* self.indexer.search(query): what it gave for this query before, if it was
\* made before
SearchOf(query) ==
    IF query \in DOMAIN call THEN {call[query]} ELSE ParallelSearches

Searched(query, found) ==
    [q \in DOMAIN call \cup {query} |-> IF q = query THEN found ELSE call[q]]

ThreadAt(place) == [at |-> place, turn |-> 0]

\* the server starts to take requests: no call in progress in any thread
Serve ==
    /\ service = "serving"
    /\ pc = "idle"
    /\ service' = "parallel"
    /\ pc' = [t \in Threads |-> ThreadAt("idle")]
    /\ request' = [t \in Threads |-> ""]
    /\ asked' = [t \in Threads |-> ""]
    /\ identified' = [t \in Threads |-> None]
    /\ compared' = [t \in Threads |-> <<>>]
    /\ feature' = [t \in Threads |-> ""]
    /\ hits' = [t \in Threads |-> <<>>]
    /\ results' = [t \in Threads |-> <<>>]
    /\ outcome' = [t \in Threads |-> NoOutcome]
    /\ call' = [q \in {} |-> NoOutcome]
    /\ UNCHANGED <<documents, tfidf_matrix>>

\* answer_question, lines 22-35, in thread t
ThreadAsk(t) ==
    /\ service = "parallel"
    /\ pc[t].at = "idle"
    /\ \E question \in ParallelQuestions :
          LET truncated == IF Len(question) > LongQuestion
                           THEN _truncate_question(question)
                           ELSE question
          IN  /\ request' = [request EXCEPT ![t] = question]
              /\ asked' = [asked EXCEPT ![t] = truncated]
              /\ IF ~_is_cdp_related(truncated)
                 THEN /\ outcome' = [outcome EXCEPT ![t] = Returned(REFUSAL)]
                      /\ pc' = [pc EXCEPT ![t] = ThreadAt("done")]
                      /\ UNCHANGED <<identified, compared, feature>>
                 ELSE IF _is_comparison_question(truncated)
                 THEN /\ compared' = [compared EXCEPT ![t] = ResolveCompared(truncated)]
                      /\ feature' = [feature EXCEPT
                                        ![t] = _extract_comparison_features(truncated)]
                      /\ pc' = [pc EXCEPT ![t] = [at |-> "compare", turn |-> 1]]
                      /\ UNCHANGED <<identified, outcome>>
                 ELSE /\ identified' = [identified EXCEPT ![t] = _identify_cdp(truncated)]
                      /\ pc' = [pc EXCEPT ![t] = ThreadAt("search")]
                      /\ UNCHANGED <<compared, feature, outcome>>
    /\ UNCHANGED <<documents, tfidf_matrix, service, hits, call, results>>

\* answer_question, lines 38-51, in thread t
ThreadSingleSearch(t) ==
    /\ service = "parallel"
    /\ pc[t].at = "search"
    /\ \E found \in SearchOf(asked[t]) :
          /\ call' = Searched(asked[t], found)
          /\ IF found.kind = "raise"
             THEN /\ outcome' = [outcome EXCEPT ![t] = SearchFailed(found.value)]
                  /\ UNCHANGED results
             ELSE /\ results' = [results EXCEPT ![t] = found.value]
                  /\ outcome' = [outcome EXCEPT
                                    ![t] = IF Len(found.value) = 0
                                           THEN Returned(NO_MATCH)
                                           ELSE Returned(_format_response(found.value,
                                                                          identified[t]))]
    /\ pc' = [pc EXCEPT ![t] = ThreadAt("done")]
    /\ UNCHANGED <<documents, tfidf_matrix, service, request, asked, identified,
                   compared, feature, hits>>

\* all_results as a mutant would have it: one list for every call
AllResultsShared(t) == hits[1]

\* line 271: all_results is a local of the call
AllResults(t) == hits[t]

\* _handle_comparison_question, lines 270-314, in thread t: one search of the loop
ThreadCompareSearch(t) ==
    /\ service = "parallel"
    /\ pc[t].at = "compare"
    /\ LET turn == pc[t].turn
           cdp == compared[t][turn]
           cdp_query == feature[t] \o " in " \o cdp
       IN  \E found \in SearchOf(cdp_query) :
              /\ call' = Searched(cdp_query, found)
              /\ IF found.kind = "raise"
                 THEN /\ outcome' = [outcome EXCEPT ![t] = found]
                      /\ pc' = [pc EXCEPT ![t] = ThreadAt("done")]
                      /\ UNCHANGED hits
                 ELSE LET all_results == IF Len(found.value) > 0
                                         THEN Append(AllResults(t), <<cdp, found.value[1]>>)
                                         ELSE AllResults(t)
                      IN  /\ hits' = [hits EXCEPT ![t] = all_results]
                          /\ IF turn = Len(compared[t])
                             THEN /\ outcome' =
                                        [outcome EXCEPT
                                            ![t] = Returned(ComparisonResponse(
                                                       compared[t], feature[t], all_results))]
                                  /\ pc' = [pc EXCEPT ![t] = ThreadAt("done")]
                             ELSE /\ pc' = [pc EXCEPT ![t] = [at |-> "compare",
                                                              turn |-> turn + 1]]
                                  /\ UNCHANGED outcome
    /\ UNCHANGED <<documents, tfidf_matrix, service, request, asked, identified,
                   compared, feature, results>>

\* the call of thread t is over
ThreadFinish(t) ==
    /\ service = "parallel"
    /\ pc[t].at = "done"
    /\ pc' = [pc EXCEPT ![t] = ThreadAt("idle")]
    /\ request' = [request EXCEPT ![t] = ""]
    /\ asked' = [asked EXCEPT ![t] = ""]
    /\ identified' = [identified EXCEPT ![t] = None]
    /\ compared' = [compared EXCEPT ![t] = <<>>]
    /\ feature' = [feature EXCEPT ![t] = ""]
    /\ hits' = [hits EXCEPT ![t] = <<>>]
    /\ results' = [results EXCEPT ![t] = <<>>]
    /\ outcome' = [outcome EXCEPT ![t] = NoOutcome]
    /\ UNCHANGED <<documents, tfidf_matrix, service, call>>

NextParallel ==
    \/ LoadDocuments
    \/ Serve
    \/ \E t \in Threads : ThreadAsk(t)
    \/ \E t \in Threads : ThreadSingleSearch(t)
    \/ \E t \in Threads : ThreadCompareSearch(t)
    \/ \E t \in Threads : ThreadFinish(t)

SpecParallel == Init /\ [][NextParallel]_vars

(***************************************************************************)
(* The properties.                                                         *)
(***************************************************************************)
Answered == pc = "done" /\ outcome.kind = "return"

\* C1: answer_question never raises: whatever the index search raises, on the
\* single-entity path and on the comparison path, ends as a returned string.
C1_NeverRaises ==
    pc = "done" => outcome.kind = "return"

\* the question holds no supported entity name and no domain keyword
NoEntityNoKeyword(question) ==
    LET lowered == Lower(question)
    IN  /\ \A k \in 1..Len(supported_cdps) : ~Contains(lowered, supported_cdps[k])
        /\ \A k \in 1..Len(cdp_keywords) : ~Contains(lowered, cdp_keywords[k])

\* the question holds a how-to phrase and an action verb
HowToWithVerb(question) ==
    LET lowered == Lower(question)
    IN  /\ \E k \in 1..Len(how_to_patterns) : Contains(lowered, how_to_patterns[k])
        /\ \E k \in 1..Len(action_verbs) : Contains(lowered, action_verbs[k])

\* C2, as stated: a question with no supported entity name and no domain
\* keyword is answered with the refusal, whatever else it holds.
C2_RefusedWhateverElse ==
    (pc = "done" /\ NoEntityNoKeyword(request)) => outcome = Returned(REFUSAL)

\* C2, amended: a question with no supported entity name, no domain keyword,
\* and not both a how-to phrase and an action verb, is answered with the refusal.
C2_Refused ==
    (pc = "done" /\ NoEntityNoKeyword(request) /\ ~HowToWithVerb(request))
        => outcome = Returned(REFUSAL)

\* a question with a how-to phrase and no action verb has been refused
C2_Witness ==
    /\ pc = "done"
    /\ NoEntityNoKeyword(request)
    /\ Contains(Lower(request), "how do i")
    /\ ~HowToWithVerb(request)
    /\ outcome = Returned(REFUSAL)

SearchReturned == pc = "done" /\ call # NoCall /\ outcome = Returned("results")

\* C3: search(query, top_k) returns top_k results at most, no more than there
\* are documents, each of a score above 0.1, the scores never increasing.
C3_SearchBounded ==
    SearchReturned =>
        /\ Len(results) <= call.top_k
        /\ Len(results) <= Len(documents)
        /\ \A i \in 1..Len(results) : results[i].score > RELEVANCE
        /\ \A i \in 1..(Len(results) - 1) : results[i].score >= results[i + 1].score

ReturnedRows == {results[i].row : i \in 1..Len(results)}

\* C4, as stated: of two documents of equal score the one inserted first comes
\* first, and is the one kept when top_k cuts between them.
C4_TiesByInsertion ==
    SearchReturned =>
        /\ \A i, j \in 1..Len(results) :
              (i < j /\ results[i].score = results[j].score)
                  => results[i].row < results[j].row
        /\ \A i \in 1..Len(results) :
              \A d \in (1..Len(documents)) \ ReturnedRows :
                  call.similarities[d] = results[i].score => results[i].row < d

\* C4, amended: the order of documents of equal score is not fixed; no
\* document left out by top_k scores above a document returned.
C4_BestKept ==
    SearchReturned =>
        \A i \in 1..Len(results) :
            \A d \in (1..Len(documents)) \ ReturnedRows :
                call.similarities[d] <= results[i].score

\* top_k has cut between two documents of equal score, and of two returned
\* with equal scores the one inserted later comes first
C4_Witness ==
    /\ SearchReturned
    /\ \E i, j \in 1..Len(results) :
          i < j /\ results[i].score = results[j].score /\ results[i].row > results[j].row
    /\ \E i \in 1..Len(results) :
          \E d \in (1..Len(documents)) \ ReturnedRows :
              call.similarities[d] = results[i].score

ToComparison == pc = "classified" /\ outcome.related /\ outcome.comparison

SetOf(seq) == {seq[i] : i \in 1..Len(seq)}

\* the supported entities whose names occur in the question
NamedIn(question) ==
    LET lowered == Lower(question)
    IN  {supported_cdps[k] : k \in {n \in 1..Len(supported_cdps) :
                                      Contains(lowered, supported_cdps[n])}}

\* C5: for every question sent to the comparison path, the entities compared
\* are two, distinct and supported; those the question names are among them
\* when it names two at most.
C5_TwoDistinct ==
    ToComparison =>
        /\ Len(compared) = 2
        /\ compared[1] # compared[2]
        /\ SetOf(compared) \subseteq SetOf(supported_cdps)
        /\ Cardinality(NamedIn(request)) <= 2 => NamedIn(request) \subseteq SetOf(compared)
        /\ Cardinality(NamedIn(request)) >= 2 => SetOf(compared) \subseteq NamedIn(request)

\* a comparison question naming one entity, a second one added to it
C5_Witness ==
    /\ ToComparison
    /\ NamedIn(request) = {"zeotap"}
    /\ compared = <<"zeotap", "segment">>

\* one of the phrases about segmenting occurs in the question
GenericSegment(question) ==
    LET lowered == Lower(question)
    IN  \E k \in 1..Len(segmentation_phrases) : Contains(lowered, segmentation_phrases[k])

ExplicitComparison(question) ==
    LET lowered == Lower(question)
    IN  \E w \in {"compare", "versus", "vs", "difference between"} : Contains(lowered, w)

\* C6: a question with a phrase about segmenting, no entity other than
\* "segment" and no explicit comparison keyword identifies no entity and is
\* not a comparison.
C6_GenericSegment ==
    (/\ pc = "classified"
     /\ GenericSegment(request)
     /\ NamedIn(request) \subseteq {"segment"}
     /\ ~ExplicitComparison(request))
        => identified = None /\ ~outcome.comparison

\* such a question, "segment" a word of its own in it and a broad comparison
\* keyword with it
C6_Witness ==
    /\ pc = "classified"
    /\ GenericSegment(request)
    /\ NamedIn(request) = {"segment"}
    /\ ~ExplicitComparison(request)
    /\ Contains(Lower(request), "better")
    /\ SearchWord(Lower(request), "segment")
    /\ identified = None
    /\ ~outcome.comparison

C8_BodyOfEntity ==
    (Answered /\ identified # None /\ Len(results) > 0) =>
        /\ At(outcome.value, 1, "Here's how to do that in " \o Title(identified) \o ":\n")
        /\ results[1].document.cdp = identified
        /\ Contains(outcome.value, results[1].document.content)

\* C9: on an empty corpus load_documents fails, the failure leaves
\* CDPChatbot.__init__, and the service answers no question.
C9_EmptyCorpus ==
    /\ (service # "starting" /\ Len(documents) = 0) =>
          service = "crashed" /\ outcome.kind = "raise" /\ ~tfidf_matrix.fitted
    /\ service = "crashed" => pc = "idle" /\ request = "" /\ call = NoCall

\* the corpus read was empty and fit_transform raised
C9_Witness ==
    /\ service = "crashed"
    /\ documents = <<>>
    /\ outcome = Raised("ValueError")

\* C10: _preprocess_query gives on its own result that same result; the
\* prefix "how to " is added once at most.
C10_Idempotent ==
    pc = "preprocessed" =>
        /\ call.again = call.processed_query
        /\ call.processed_query \in {Lower(call.query), "how to " \o Lower(call.query)}
        /\ Contains(Lower(call.query), "how to") => call.processed_query = Lower(call.query)

\* a query with an action verb and no "how to": the prefix was added, once
C10_Witness ==
    /\ pc = "preprocessed"
    /\ ~Contains(Lower(call.query), "how to")
    /\ call.processed_query = "how to " \o Lower(call.query)
    /\ call.again = call.processed_query


\* what _handle_comparison_question returns to a call made alone, search giving
\* for each query what `call` holds for it
CompareAlone(question) ==
    LET mentioned == ResolveCompared(question)
        feat == _extract_comparison_features(question)
        Query(i) == feat \o " in " \o mentioned[i]
        Hit(i) == Len(call[Query(i)].value) > 0
        with_hit == SelectSeq(<<1, 2>>, Hit)
        all_results == [k \in 1..Len(with_hit) |->
                           <<mentioned[with_hit[k]], call[Query(with_hit[k])].value[1]>>]
    IN  IF call[Query(1)].kind = "raise" THEN call[Query(1)]
        ELSE IF call[Query(2)].kind = "raise" THEN call[Query(2)]
        ELSE Returned(ComparisonResponse(mentioned, feat, all_results))

\* what answer_question does for a call made alone
AnswerAlone(question) ==
    LET truncated == IF Len(question) > LongQuestion
                     THEN _truncate_question(question)
                     ELSE question
    IN  IF ~_is_cdp_related(truncated) THEN Returned(REFUSAL)
        ELSE IF _is_comparison_question(truncated) THEN CompareAlone(truncated)
        ELSE IF call[truncated].kind = "raise" THEN Returned(TROUBLE)
        ELSE IF Len(call[truncated].value) = 0 THEN Returned(NO_MATCH)
        ELSE Returned(_format_response(call[truncated].value, _identify_cdp(truncated)))

\* C11: once load_documents has completed no call changes the documents or
\* the fitted index, and every question answered while other calls run gets
\* what a call made alone gets.
C11_ReadOnly ==
    /\ [][tfidf_matrix.fitted => UNCHANGED <<documents, tfidf_matrix>>]_vars
    /\ [](service = "parallel" =>
            \A t \in Threads : pc[t].at = "done" => outcome[t] = AnswerAlone(request[t]))

\* one comparison has been answered while another call was between its two
\* searches, each having found a document
C11_Witness ==
    /\ service = "parallel"
    /\ \E t, u \in Threads :
          /\ pc[t].at = "done"
          /\ Len(hits[t]) = 2
          /\ outcome[t] = AnswerAlone(request[t])
          /\ pc[u] = [at |-> "compare", turn |-> 2]
          /\ Len(hits[u]) = 1


\* the place of an entity in the supported set
PlaceOf(c) == CHOOSE k \in 1..Len(supported_cdps) : supported_cdps[k] = c

\* C12: a question with a phrase about segmenting that names an entity other
\* than "segment" identifies the first such entity in the order mparticle,
\* lytics, zeotap, never "segment".
C12_OtherFirst ==
    (/\ pc = "classified"
     /\ GenericSegment(request)
     /\ NamedIn(request) \ {"segment"} # {})
        => /\ identified \in NamedIn(request) \ {"segment"}
           /\ \A c \in NamedIn(request) \ {"segment"} : PlaceOf(identified) <= PlaceOf(c)

\* such a question names zeotap before lytics, and lytics is identified
C12_Witness ==
    /\ pc = "classified"
    /\ GenericSegment(request)
    /\ NamedIn(request) = {"segment", "lytics", "zeotap"}
    /\ Find(Lower(request), "zeotap") < Find(Lower(request), "lytics")
    /\ identified = "lytics"


\* "segment" is followed by whitespace and "cdp" or "platform"
SegmentInContext(question) ==
    \/ SearchSpaced(Lower(question), "segment", "cdp")
    \/ SearchSpaced(Lower(question), "segment", "platform")

\* C13: a question with a phrase about segmenting, no entity other than
\* "segment", and "segment" followed by "cdp" or "platform" identifies "segment".
C13_StrictPattern ==
    (/\ pc = "classified"
     /\ GenericSegment(request)
     /\ NamedIn(request) = {"segment"}
     /\ SegmentInContext(request))
        => identified = "segment"


\* C14: a question of any length that holds the name of a supported entity,
\* in any case, is not answered with the refusal.
C14_NamedNotRefused ==
    (pc = "done" /\ NamedIn(request) # {}) => outcome # Returned(REFUSAL)


\* C15: a question with a phrase about segmenting is a comparison exactly when
\* it holds one of compare, versus, vs, difference between.
C15_ExplicitOnly ==
    (pc = "classified" /\ GenericSegment(request))
        => (outcome.comparison <=> ExplicitComparison(request))

\* such a question with a broader keyword and two entities mentioned, and none
\* of the four: not a comparison
C15_Witness ==
    /\ pc = "classified"
    /\ GenericSegment(request)
    /\ Contains(Lower(request), "better")
    /\ Len(ClassifierMentioned(Lower(request))) >= 2
    /\ ~ExplicitComparison(request)
    /\ ~outcome.comparison


\* C16: the entities _handle_comparison_question takes as named are those
\* _is_comparison_question counts as mentioned; when two at least are
\* mentioned, the first two of them are those compared.
C16_SameMentioned ==
    pc = "classified" =>
        /\ NamedCdps(Lower(request)) = ClassifierMentioned(Lower(request))
        /\ Len(ClassifierMentioned(Lower(request))) >= 2
              => compared = Take(ClassifierMentioned(Lower(request)), 2)


\* the entities whose names occur in the question, then the others, each group
\* in the order of the supported set
NamedThenOthers(question) ==
    LET named == NamedIn(question)
        IsNamed(c) == c \in named
        IsOther(c) == c \notin named
    IN  SelectSeq(supported_cdps, IsNamed) \o SelectSeq(supported_cdps, IsOther)

\* C17: the entities compared are the first two of: those named in the
\* question, in the order of the supported set, then those not named, in that
\* order.  Where the question mentions them plays no role.
C17_ComparedPair ==
    pc = "classified" =>
        LET order == NamedThenOthers(request)
        IN  compared = <<order[1], order[2]>>

\* three entities named, zeotap first and mparticle last in the question:
\* mparticle and lytics are compared
C17_Witness ==
    /\ pc = "classified"
    /\ NamedIn(request) = {"mparticle", "lytics", "zeotap"}
    /\ Find(Lower(request), "zeotap") < Find(Lower(request), "lytics")
    /\ Find(Lower(request), "lytics") < Find(Lower(request), "mparticle")
    /\ compared = <<"mparticle", "lytics">>


\* a comparison answer other than the "not enough information" message
ComparisonAnswered ==
    /\ pc = "done"
    /\ Len(compared) = 2
    /\ outcome.kind = "return"
    /\ Len(hits) > 0

\* the number of places of s where p occurs
CountOf(s, p) == Cardinality({i \in 1..Len(s) : At(s, i, p)})

BlockOf(cdp) == "**" \o Title(cdp) \o "**:\n"

HasHit(cdp) == \E k \in 1..Len(hits) : hits[k][1] = cdp

\* C18, as stated: a comparison answer holds one block for each of the two
\* entities compared and exactly one line of key differences.
C18_TwoBlocks ==
    ComparisonAnswered =>
        /\ \A i \in 1..2 : CountOf(outcome.value, BlockOf(compared[i])) = 1
        /\ CountOf(outcome.value, "**Key Differences**:\n- ") = 1

\* C18, amended: a comparison answer holds one block for each entity compared
\* whose search gave a result and none for the other; the heading of the key
\* differences comes once, with one line under it when both entities had a
\* result and none when only one had.
C18_BlockPerHit ==
    ComparisonAnswered =>
        /\ \A i \in 1..2 :
              CountOf(outcome.value, BlockOf(compared[i]))
                  = (IF HasHit(compared[i]) THEN 1 ELSE 0)
        /\ CountOf(outcome.value, "**Key Differences**:\n") = 1
        /\ CountOf(outcome.value, "**Key Differences**:\n- ")
              = (IF Len(hits) = 2 THEN 1 ELSE 0)
        /\ CountOf(outcome.value, "\n- ") = (IF Len(hits) = 2 THEN 1 ELSE 0)

\* only the second entity had a result: its block, the heading, and no line
C18_Witness ==
    /\ ComparisonAnswered
    /\ Len(hits) = 1
    /\ hits[1][1] = compared[2]
    /\ CountOf(outcome.value, BlockOf(compared[1])) = 0
    /\ CountOf(outcome.value, BlockOf(compared[2])) = 1
    /\ CountOf(outcome.value, "**Key Differences**:\n\nNote:") = 1


\* the comparison path has made its two searches and returned
ComparisonReturned ==
    /\ pc = "done"
    /\ Len(compared) = 2
    /\ outcome.kind = "return"

NotEnough ==
    "I don't have enough information to compare " \o compared[1] \o " and "
        \o compared[2] \o " regarding " \o feature
        \o ". Could you please ask a more specific question?"

\* C19: the comparison path asks the index for "<feature> in <entity>" for
\* each of the two entities; it returns the "not enough information" message,
\* naming both entities and the feature, exactly when neither search gave a
\* result, and a comparison when one at least did.
C19_NotEnoughIffNoHit ==
    ComparisonReturned =>
        /\ call.turn = 2
        /\ call.query = feature \o " in " \o compared[2]
        /\ (outcome.value = NotEnough) <=> (Len(hits) = 0)
        /\ Len(hits) > 0 => At(outcome.value, 1, "Here's a comparison of " \o feature
                                  \o " between " \o compared[1] \o " and " \o compared[2])

\* neither search gave a result, and the message was returned
C19_Witness ==
    /\ ComparisonReturned
    /\ Len(hits) = 0
    /\ call.turn = 2
    /\ outcome.value = NotEnough


\* the entries of the table for the two entities, in either order, whose
\* category occurs in the feature
EntriesFor(cdp1, cdp2, feat) ==
    {k \in 1..Len(comparison_keys) :
        /\ {comparison_keys[k][1], comparison_keys[k][2]} = {cdp1, cdp2}
        /\ Contains(feat, comparison_keys[k][3])}

\* the sentence of entry k of the table
EntrySentence(k) ==
    Title(comparison_keys[k][1]) \o comparison_texts[k][1] \o ", while "
        \o Title(comparison_keys[k][2]) \o comparison_texts[k][2]

GenericSentence(cdp1, cdp2, feat) ==
    Title(cdp1) \o " and " \o Title(cdp2) \o " have different approaches to " \o feat
        \o ", with each offering unique advantages depending on your specific use case."

\* C20: when the table holds, for the two entities, an entry whose category
\* occurs in the feature, the sentence returned is the sentence of such an
\* entry; the generic sentence is returned only when it holds none.
C20_KeyedByCategory ==
    pc = "differed" =>
        LET entries == EntriesFor(call.cdp1, call.cdp2, call.feature)
        IN  /\ entries # {} => \E k \in entries : call.point = EntrySentence(k)
            /\ call.point = GenericSentence(call.cdp1, call.cdp2, call.feature)
                  => entries = {}


\* C21: the lookup is symmetric. For two distinct entities and a feature that
\* an entry of the table matches, the call and the call with the two entities
\* exchanged return the same sentence, and it is the sentence of the matched
\* entry, each statement attached to the entity the table attaches it to.
C21_Symmetric ==
    (pc = "differed" /\ MatchingEntries(call.cdp1, call.cdp2, call.feature) # {}) =>
        /\ call.point = _generate_difference_point(call.cdp2, call.cdp1, call.feature)
        /\ call.point
              = EntrySentence(Min(MatchingEntries(call.cdp1, call.cdp2, call.feature)))

\* the call gave the entities in the order opposite to the table's
C21_Witness ==
    /\ pc = "differed"
    /\ call.cdp1 = "mparticle" /\ call.cdp2 = "segment"
    /\ call.feature = "audience creation"
    /\ call.point = "Segment focuses on data collection and routing, while Mparticle has more advanced audience segmentation capabilities."


\* the pattern as it matches when letter case is ignored, on lower-cased text
IgnoreCase(pattern) ==
    [n \in 1..Len(pattern) |->
        IF pattern[n][1] # "lit" /\ pattern[n][2] = upper_letter
        THEN <<pattern[n][1], lower_letter>>
        ELSE pattern[n]]

RECURSIVE Occurrences(_, _)
\* one copy of each occurrence of each pattern in the lower-cased content
Occurrences(lowered, patterns) ==
    IF Len(patterns) = 0 THEN ""
    ELSE LET matches == FindAll(lowered, 1, IgnoreCase(Head(patterns)))
         IN  (IF Len(matches) > 0 THEN " " \o Join(" ", matches) ELSE "")
                \o Occurrences(lowered, Tail(patterns))

\* C22: the processed content of every document is its lower-cased content
\* followed by exactly one copy of each occurrence, in the original content,
\* of each instructional pattern matched without regard to letter case.
C22_EachOccurrenceOnce ==
    \A i \in 1..Len(documents) :
        documents[i].processed_content
            = Lower(documents[i].content)
                \o Occurrences(Lower(documents[i].content),
                               step_patterns \o index_how_to_patterns)


\* the first paragraph of a single-entity answer
Introduction(cdp) == "Here's how to do that in " \o Title(cdp) \o ":\n\n"

\* the body of a single-entity answer: what stands between the introduction
\* and the source line
BodyOf(response, cdp) ==
    SubSeq(response, Len(Introduction(cdp)) + 1, Find(response, "\n\nSource: ") - 1)

\* where the body of a long content starts: at the first occurrence of the
\* first indicator present, in the order tried, or at the start
BodyStart(content) ==
    IF Contains(content, "Step 1") THEN Find(content, "Step 1")
    ELSE IF Contains(content, "1.") THEN Find(content, "1.")
    ELSE IF Contains(content, "First") THEN Find(content, "First")
    ELSE IF Contains(content, "To begin") THEN Find(content, "To begin")
    ELSE IF Contains(content, "Start by") THEN Find(content, "Start by")
    ELSE 1

\* C23: the body of a single-entity answer is bounded.  Content of at most 800
\* characters is reproduced whole; of longer content the body is at most 800
\* characters, from the first occurrence of the first step marker present (or
\* from the start when there is none), followed by "...".
C23_BodyBounded ==
    pc = "formatted" =>
        LET content == call.results[1].document.content
            named == IF call.cdp = None THEN call.results[1].document.cdp ELSE call.cdp
            body == BodyOf(call.response, named)
            kept == Len(body) - 3
        IN  /\ SubSeq(call.response, 1, Len(Introduction(named))) = Introduction(named)
            /\ Len(content) <= 800 => body = content
            /\ Len(content) > 800 =>
                  /\ kept \in 0..800
                  /\ body = SubSeq(content, BodyStart(content), BodyStart(content) + kept - 1)
                                \o "..."
                  /\ kept = 800 \/ BodyStart(content) + kept - 1 = Len(content)

\* a long content with "1." before "Step 1": the body starts at "Step 1"
C23_Witness ==
    /\ pc = "formatted"
    /\ Len(call.results[1].document.content) > 800
    /\ Find(call.results[1].document.content, "1.") = 1
    /\ Find(call.results[1].document.content, "Step 1") = 74
    /\ Find(call.response, "Step 1 is to name the source.")
          = Len(Introduction("segment")) + 1
    /\ Len(BodyOf(call.response, "segment")) = 803


\* C24: the question handed to the classifier and the index is a non-empty
\* suffix of the original question, of at most 500 characters.
C24_HandedBounded ==
    (service = "serving" /\ pc \in {"done", "compare", "search"}) =>
        /\ Len(asked) > 0
        /\ Len(asked) <= 500
        /\ asked = SubSeq(request, Len(request) - Len(asked) + 1, Len(request))


\* C25: the feature of a comparison is never empty, so every query of a
\* comparison has the form "<feature> in <entity>" with a feature in it.
C25_FeatureNotEmpty ==
    (service = "serving" /\ Len(compared) > 0) =>
        /\ Len(feature) > 0
        /\ call # NoCall =>
              /\ call.query = feature \o " in " \o compared[call.turn]
              /\ Find(call.query, " in ") > 1


\* the question as lines 23-24 hand it on
Handed(question) ==
    IF Len(question) > LongQuestion THEN _truncate_question(question) ELSE question

\* answer_question on the question in another letter case takes the path of
\* the call in progress, names the same entities and the same feature, and
\* gives the index the same text to search
SamePath(variant) ==
    LET handed == Handed(variant)
        related == _is_cdp_related(handed)
        comparison == _is_comparison_question(handed)
    IN  /\ Lower(handed) = Lower(asked)
        /\ related = (pc # "done")
        /\ related =>
              /\ comparison = (pc = "compare")
              /\ IF comparison
                 THEN /\ ResolveCompared(handed) = compared
                      /\ _extract_comparison_features(handed) = feature
                 ELSE /\ _identify_cdp(handed) = identified
                      /\ _preprocess_query(handed) = _preprocess_query(asked)

\* lines 27-35 are over and no search was made yet
PathTaken ==
    /\ service = "serving"
    /\ \/ pc = "search"
       \/ pc = "compare" /\ call = NoCall
       \/ pc = "done" /\ outcome = Returned(REFUSAL)

\* the answer of a call that is done is made of the path taken, the entities,
\* the feature and what the searches gave, and of nothing else of the question
AnswerOfPath ==
    IF outcome.kind = "raise" THEN Len(compared) > 0
    ELSE IF Len(compared) > 0
    THEN outcome = Returned(ComparisonResponse(compared, feature, hits))
    ELSE \/ outcome = Returned(REFUSAL) /\ call = NoCall
         \/ outcome = Returned(TROUBLE) /\ Len(results) = 0 /\ call # NoCall
         \/ outcome = Returned(NO_MATCH) /\ Len(results) = 0 /\ call # NoCall
         \/ outcome = Returned(_format_response(results, identified)) /\ Len(results) > 0

\* C26: answer_question is insensitive to letter case.  The question in upper
\* case and the question in lower case take the same path, with the same
\* entities, the same feature and the same text searched, and the answer is
\* made of these and of the search results only.
C26_CaseBlind ==
    /\ PathTaken => SamePath(Upper(request)) /\ SamePath(Lower(request))
    /\ (service = "serving" /\ pc = "done") => AnswerOfPath

\* a question of mixed case was answered from a document, with its entity
C26_Witness ==
    /\ service = "serving"
    /\ pc = "done"
    /\ request = "How do I set up a new source in Segment?"
    /\ Upper(request) = "HOW DO I SET UP A NEW SOURCE IN SEGMENT?"
    /\ identified = "segment"
    /\ Len(results) > 0
    /\ _identify_cdp(Upper(request)) = "segment"
    /\ outcome = Returned(_format_response(results, "segment"))

====
